---- MODULE Spec2Model ----
(***************************************************************************)
(* Model of the PGN move interpreter of pgn-crunker.                       *)
(*                                                                         *)
(* The repository holds two copies of PgnProcessor: the binary's           *)
(* (src/main.rs) and the library's (src/pgn_preprocessor.rs).  The         *)
(* variable impl says which copy the processor is; both are modelled       *)
(* line by line.  Strings are sequences of one-character strings, so that  *)
(* indexing, trimming, replacing and splitting are computed as the code    *)
(* computes them.  The chess crate (Board, is_possible, play_move, castle, *)
(* string_to_square, square_to_string) is an external dependency and is    *)
(* modelled from its interface.                                            *)
(***************************************************************************)
EXTENDS Integers, Sequences, FiniteSets, TLC

\* Largest number of moves applied to the board at which a caller still
\* hands a new text to process_pgn.
MaxPly == 5

--------------------------------------------------------------------------
(* Characters *)

LowerSeq ==
  <<"a","b","c","d","e","f","g","h","i","j","k","l","m",
    "n","o","p","q","r","s","t","u","v","w","x","y","z">>

DigitSeq == <<"0","1","2","3","4","5","6","7","8","9">>

Range(s) == { s[i] : i \in 1..Len(s) }

\* char::is_lowercase on the characters of the model's alphabet
is_lowercase(c) == c \in Range(LowerSeq)

\* char::is_ascii_digit / char::is_digit(10)
is_ascii_digit(c) == c \in Range(DigitSeq)

IndexIn(c, s) == CHOOSE i \in 1..Len(s) : s[i] = c

\* file as u8 - b'a'
FileOffset(c) == IndexIn(c, LowerSeq) - 1

\* rank as u8 - b'1', in u8 arithmetic (wrapping, as the release profile does)
RankOffset(c) == (IndexIn(c, DigitSeq) - 2) % 256

Some(x) == <<x>>
NoneOpt == <<>>

--------------------------------------------------------------------------
(* The position oracle (chess crate) *)

Squares == 0..63

\* start_square % 8 and start_square / 8
FileOf(s) == s % 8
RankOf(s) == s \div 8
BadSquare == 64

White == "White"
Black == "Black"

\* impl Not for Color
Not(c) == IF c = White THEN Black ELSE White

Empty == "."

PieceCode(color, type) ==
  IF color = White
  THEN CASE type = "Pawn" -> "P" [] type = "Knight" -> "N" [] type = "Bishop" -> "B"
         [] type = "Rook" -> "R" [] type = "Queen" -> "Q" [] type = "King" -> "K"
  ELSE CASE type = "Pawn" -> "p" [] type = "Knight" -> "n" [] type = "Bishop" -> "b"
         [] type = "Rook" -> "r" [] type = "Queen" -> "q" [] type = "King" -> "k"

ColorOf(p) ==
  IF p \in {"P","N","B","R","Q","K"} THEN White
  ELSE IF p \in {"p","n","b","r","q","k"} THEN Black
  ELSE "None"

TypeOf(p) ==
  CASE p \in {"P","p"} -> "Pawn" [] p \in {"N","n"} -> "Knight"
    [] p \in {"B","b"} -> "Bishop" [] p \in {"R","r"} -> "Rook"
    [] p \in {"Q","q"} -> "Queen" [] p \in {"K","k"} -> "King"
    [] OTHER -> "None"

BackRank == <<"Rook","Knight","Bishop","Queen","King","Bishop","Knight","Rook">>

\* Board::init(): the standard starting position, no move applied
BoardInit ==
  [sq |-> [s \in Squares |->
             CASE RankOf(s) = 0 -> PieceCode(White, BackRank[FileOf(s) + 1])
               [] RankOf(s) = 1 -> "P"
               [] RankOf(s) = 6 -> "p"
               [] RankOf(s) = 7 -> PieceCode(Black, BackRank[FileOf(s) + 1])
               [] OTHER -> Empty],
   ply |-> 0]

\* chess::utils::string_to_square: file letter + rank digit -> rank*8 + file
string_to_square(str) ==
  IF Len(str) = 2 /\ str[1] \in Range(SubSeq(LowerSeq, 1, 8))
                  /\ str[2] \in Range(SubSeq(DigitSeq, 2, 9))
  THEN (IndexIn(str[2], DigitSeq) - 2) * 8 + FileOffset(str[1])
  ELSE BadSquare

\* chess::utils::square_to_string
square_to_string(s) == << LowerSeq[FileOf(s) + 1], DigitSeq[RankOf(s) + 2] >>

Abs(x) == IF x < 0 THEN -x ELSE x
Sgn(x) == IF x < 0 THEN -1 ELSE IF x > 0 THEN 1 ELSE 0

Max(x, y) == IF x > y THEN x ELSE y

\* every square strictly between s and s + n*st is empty
StepsClear(b, s, n, st) == \A k \in 1..(n - 1) : b.sq[s + k * st] = Empty

\* every square strictly between s and t, df files and dr ranks away, is empty
PathClear(b, s, df, dr) ==
  StepsClear(b, s, Max(Abs(df), Abs(dr)), Sgn(dr) * 8 + Sgn(df))

\* the geometry of a move of piece p from s to t, df files and dr ranks away;
\* fw is the pawn's direction and home its starting rank
Geometry(b, s, t, p, df, dr, fw, home) ==
  CASE TypeOf(p) = "Pawn" ->
         \/ df = 0 /\ dr = fw /\ b.sq[t] = Empty
         \/ df = 0 /\ dr = 2 * fw /\ RankOf(s) = home
            /\ b.sq[t] = Empty /\ b.sq[s + 8 * fw] = Empty
         \/ Abs(df) = 1 /\ dr = fw /\ b.sq[t] # Empty
    [] TypeOf(p) = "Knight" -> {Abs(df), Abs(dr)} = {1, 2}
    [] TypeOf(p) = "King" -> Abs(df) <= 1 /\ Abs(dr) <= 1
    [] TypeOf(p) = "Rook" -> (df = 0 \/ dr = 0) /\ PathClear(b, s, df, dr)
    [] TypeOf(p) = "Bishop" -> Abs(df) = Abs(dr) /\ PathClear(b, s, df, dr)
    [] TypeOf(p) = "Queen" ->
         (df = 0 \/ dr = 0 \/ Abs(df) = Abs(dr)) /\ PathClear(b, s, df, dr)
    [] OTHER -> FALSE

\* chess::legal_moves::is_move_possible::is_possible(&board, &(start, end)):
\* the geometry of the piece standing on start, blockers and own pieces
is_possible(b, s, t) ==
  /\ s \in Squares /\ t \in Squares /\ s # t
  /\ b.sq[s] # Empty
  /\ ColorOf(b.sq[t]) # ColorOf(b.sq[s])
  /\ Geometry(b, s, t, b.sq[s], FileOf(t) - FileOf(s), RankOf(t) - RankOf(s),
              IF ColorOf(b.sq[s]) = White THEN 1 ELSE -1,
              IF ColorOf(b.sq[s]) = White THEN 1 ELSE 6)

\* board.get_bitboard(&color, &type).get_occupied_squares()
get_occupied_squares(b, color, type) ==
  { s \in Squares : b.sq[s] = PieceCode(color, type) }

\* Board::play_move(&(start, end)): the piece moves, one more move applied
play_move(b, s, t) ==
  [sq |-> [b.sq EXCEPT ![t] = b.sq[s], ![s] = Empty], ply |-> b.ply + 1]

OO == <<"O","-","O">>
OOO == <<"O","-","O","-","O">>

\* the king and the rook go from kf and rf to kt and rt
Relocate(b, kf, kt, rf, rt) ==
  [sq |-> [s \in Squares |->
             IF s = kt THEN b.sq[kf]
             ELSE IF s = rt THEN b.sq[rf]
             ELSE IF s \in {kf, rf} THEN Empty
             ELSE b.sq[s]],
   ply |-> b.ply + 1]

CastleOnRank(b, move_str, r0) ==
  IF move_str = OO
  THEN Relocate(b, r0 + 4, r0 + 6, r0 + 7, r0 + 5)
  ELSE Relocate(b, r0 + 4, r0 + 2, r0, r0 + 3)

\* Board::castle(move_str, &color): king and rook of color are relocated,
\* one more move applied
castle(b, move_str, color) ==
  CastleOnRank(b, move_str, IF color = White THEN 0 ELSE 56)

--------------------------------------------------------------------------
(* PgnProcessor *)

Impls == {"main", "lib"}

\* &str::trim_end_matches(c)
RECURSIVE trim_end_matches(_, _)
trim_end_matches(s, c) ==
  IF Len(s) > 0 /\ s[Len(s)] = c
  THEN trim_end_matches(SubSeq(s, 1, Len(s) - 1), c)
  ELSE s

\* chars[idx..].iter().take(2).collect(), idx counted from 0
Take2(chars, idx) ==
  SubSeq(chars, idx + 1, IF idx + 2 <= Len(chars) THEN idx + 2 ELSE Len(chars))

\* chars[idx], idx counted from 0
At(chars, idx) == chars[idx + 1]

\* PgnProcessor::get_piece_type
get_piece_type(c) ==
  CASE c = "N" -> Some("Knight")
    [] c = "B" -> Some("Bishop")
    [] c = "R" -> Some("Rook")
    [] c = "Q" -> Some("Queen")
    [] c = "K" -> Some("King")
    [] OTHER -> NoneOpt

\* What a parse reports: res is "some" (a unique origin), "none" (Option::None)
\* or "panic"; the remaining fields record what the parse extracted and did.
Parsed(res, kind, start, target, file, rank, tstr, cands, queried, promo, msg) ==
  [res |-> res, kind |-> kind, start |-> start, target |-> target,
   file |-> file, rank |-> rank, target_str |-> tstr, cands |-> cands,
   queried |-> queried, promo |-> promo, msg |-> msg]

\* the loop over the occupied squares that fills possible_starts
possible_starts(b, turn, type, file, rank, target_square) ==
  { s \in get_occupied_squares(b, turn, type) :
      /\ file # NoneOpt => FileOf(s) = FileOffset(file[1])
      /\ rank # NoneOpt => RankOf(s) = RankOffset(rank[1])
      /\ is_possible(b, s, target_square) }

\* if possible_starts.len() == 1 { return Some(..) } and what follows it
UniqueOrFail(im, kind, cands, target, file, rank, tstr, promo) ==
  IF Cardinality(cands) = 1
  THEN Parsed("some", kind, CHOOSE s \in cands : TRUE, target,
              file, rank, tstr, cands, TRUE, promo, "")
  ELSE IF im = "lib" /\ kind = "piece"
  THEN Parsed("panic", kind, BadSquare, target, file, rank, tstr, cands,
              TRUE, promo, "Ambiguous move")
  ELSE Parsed("none", kind, BadSquare, target, file, rank, tstr, cands,
              TRUE, promo, "")

\* parse_pawn_move once the target square is read: promotion, then the search
PawnSearch(im, b, turn, file, target_str, target_square, promo) ==
  IF promo /\ im = "lib"
  THEN Parsed("panic", "pawn", BadSquare, target_square, file, NoneOpt,
              target_str, {}, FALSE, TRUE, "not yet implemented: Promotion")
  ELSE UniqueOrFail(im, "pawn",
         possible_starts(b, turn, "Pawn", file, NoneOpt, target_square),
         target_square, file, NoneOpt, target_str, promo)

\* parse_pawn_move after the capture test: file is the hint, idx the index
\* (from 0) of the target square
PawnTarget(im, b, turn, chars, file, idx) ==
  IF Len(chars) - idx < 2
  THEN Parsed("none", "pawn", BadSquare, BadSquare, file, NoneOpt, <<>>,
              {}, FALSE, FALSE, "")
  ELSE PawnSearch(im, b, turn, file, Take2(chars, idx),
                  string_to_square(Take2(chars, idx)),
                  idx + 2 < Len(chars) /\ At(chars, idx + 2) = "=")

\* PgnProcessor::parse_pawn_move
parse_pawn_move(im, b, turn, chars) ==
  IF Len(chars) > 1 /\ chars[2] = "x"
  THEN PawnTarget(im, b, turn, chars, Some(chars[1]), 2)
  ELSE PawnTarget(im, b, turn, chars, NoneOpt, 0)

\* the file disambiguation test of parse_piece_move at index idx
FileHint(im, chars, idx) ==
  IF im = "lib"
  THEN idx + 2 < Len(chars) /\ is_lowercase(At(chars, idx)) /\ At(chars, idx) # "x"
  ELSE idx < Len(chars) /\ is_lowercase(At(chars, idx))

\* the rank disambiguation test of parse_piece_move at index idx; the binary
\* makes it only when no file was read (else if)
RankHint(im, chars, idx, fileHit) ==
  IF im = "lib"
  THEN idx + 2 < Len(chars) /\ is_ascii_digit(At(chars, idx))
  ELSE ~fileHit /\ idx < Len(chars) /\ is_ascii_digit(At(chars, idx))

\* the capture test at index idx and the length test that follows; oob says
\* that the library's unguarded chars[idx] reads past the end
CaptureField(im, chars, file, rank, idx) ==
  [file |-> file, rank |-> rank,
   oob |-> im = "lib" /\ idx >= Len(chars),
   idx |-> IF idx < Len(chars) /\ At(chars, idx) = "x" THEN idx + 1 ELSE idx]

RankField(im, chars, file, idx, fileHit) ==
  IF RankHint(im, chars, idx, fileHit)
  THEN CaptureField(im, chars, file, Some(At(chars, idx)), idx + 1)
  ELSE CaptureField(im, chars, file, NoneOpt, idx)

\* The disambiguation and capture prefix of parse_piece_move: the hints and
\* the index (from 0) at which the target square is read.
piece_fields(im, chars) ==
  IF FileHint(im, chars, 1)
  THEN RankField(im, chars, Some(At(chars, 1)), 2, TRUE)
  ELSE RankField(im, chars, NoneOpt, 1, FALSE)

\* parse_piece_move once the prefix is read
PieceSearch(im, b, turn, chars, piece_type, f) ==
  IF f.oob
  THEN Parsed("panic", "piece", BadSquare, BadSquare, f.file, f.rank, <<>>,
              {}, FALSE, FALSE, "index out of bounds")
  ELSE IF f.idx + 2 > Len(chars)
  THEN Parsed("none", "piece", BadSquare, BadSquare, f.file, f.rank, <<>>,
              {}, FALSE, FALSE, "")
  ELSE UniqueOrFail(im, "piece",
         possible_starts(b, turn, piece_type, f.file, f.rank,
                         string_to_square(Take2(chars, f.idx))),
         string_to_square(Take2(chars, f.idx)), f.file, f.rank,
         Take2(chars, f.idx), FALSE)

\* PgnProcessor::parse_piece_move
parse_piece_move(im, b, turn, chars, piece_type) ==
  PieceSearch(im, b, turn, chars, piece_type, piece_fields(im, chars))

\* PgnProcessor::parse_move
parse_move(im, b, turn, move_str) ==
  IF Len(move_str) = 0
  THEN Parsed("none", "malformed", BadSquare, BadSquare, NoneOpt, NoneOpt, <<>>,
              {}, FALSE, FALSE, "")
  ELSE IF is_lowercase(move_str[1])
  THEN parse_pawn_move(im, b, turn, move_str)
  ELSE IF get_piece_type(move_str[1]) # NoneOpt
  THEN parse_piece_move(im, b, turn, move_str, get_piece_type(move_str[1])[1])
  ELSE IF im = "lib"
  THEN Parsed("panic", "malformed", BadSquare, BadSquare, NoneOpt, NoneOpt, <<>>,
              {}, FALSE, FALSE, "Invalid piece type")
  ELSE Parsed("none", "malformed", BadSquare, BadSquare, NoneOpt, NoneOpt, <<>>,
              {}, FALSE, FALSE, "")

\* What one call of process_move does: res is "some" (Some(out) returned),
\* "none" (None returned) or "panic"; board and turn are the fields of self
\* when the call ends; castled says that Board::castle was called.
Moved(res, out, b, turn, castled, p) ==
  [res |-> res, out |-> out, board |-> b, turn |-> turn,
   castled |-> castled, p |-> p]

CastleParsed ==
  Parsed("some", "castle", BadSquare, BadSquare, NoneOpt, NoneOpt, <<>>,
         {}, FALSE, FALSE, "")

\* the castling branch of process_move
CastleMove(im, b, turn, move_str) ==
  IF im = "lib"
  THEN Moved("some", move_str, castle(b, move_str, turn), Not(turn), TRUE,
             CastleParsed)
  ELSE Moved("some", move_str, b, Not(turn), FALSE, CastleParsed)

\* the success branch of process_move: format, play_move, toggle
Resolved(b, turn, p) ==
  Moved("some", square_to_string(p.start) \o square_to_string(p.target),
        play_move(b, p.start, p.target), Not(turn), FALSE, p)

\* Failed, had it toggled the side to move as the success branch does
Failed_TogglesTurn(im, b, turn, p) ==
  IF im = "lib"
  THEN Moved("panic", <<>>, b, Not(turn), FALSE, [p EXCEPT !.msg = "Invalid move"])
  ELSE Moved("none", <<>>, b, Not(turn), FALSE, p)

\* the end of process_move, reached when no move was returned:
\* None in the binary, panic!("Invalid move: ..") in the library
Failed(im, b, turn, p) ==
  IF im = "lib"
  THEN Moved("panic", <<>>, b, turn, FALSE, [p EXCEPT !.msg = "Invalid move"])
  ELSE Moved("none", <<>>, b, turn, FALSE, p)

\* process_move once the token is parsed
AfterParse(im, b, turn, p) ==
  IF p.res = "panic"
  THEN Moved("panic", <<>>, b, turn, FALSE, p)
  ELSE IF p.res = "some" /\ is_possible(b, p.start, p.target)
  THEN Resolved(b, turn, p)
  ELSE Failed(im, b, turn, p)

\* PgnProcessor::process_move
process_move(im, b, turn, move_str) ==
  IF move_str = OO \/ move_str = OOO
  THEN CastleMove(im, b, turn, move_str)
  ELSE AfterParse(im, b, turn,
         parse_move(im, b, turn,
           trim_end_matches(trim_end_matches(move_str, "+"), "#")))

\* str::replace(pat, rep)
RECURSIVE replace(_, _, _)
replace(s, pat, rep) ==
  IF Len(s) < Len(pat) THEN s
  ELSE IF SubSeq(s, 1, Len(pat)) = pat
  THEN rep \o replace(SubSeq(s, Len(pat) + 1, Len(s)), pat, rep)
  ELSE <<s[1]>> \o replace(Tail(s), pat, rep)

\* what follows the first occurrence of pat in s, <<>> when there is none
RECURSIVE AfterFirst(_, _)
AfterFirst(s, pat) ==
  IF Len(s) < Len(pat) THEN <<>>
  ELSE IF SubSeq(s, 1, Len(pat)) = pat
  THEN SubSeq(s, Len(pat) + 1, Len(s))
  ELSE AfterFirst(Tail(s), pat)

\* s.split(pat).skip(1).collect::<String>()
split_skip_collect(s, pat) == replace(AfterFirst(s, pat), pat, <<>>)

is_whitespace(c) == c \in {" ", "\n"}

\* str::split_whitespace, collected; cur is the word being read
RECURSIVE SplitWs(_, _)
SplitWs(s, cur) ==
  IF Len(s) = 0 THEN (IF Len(cur) = 0 THEN <<>> ELSE <<cur>>)
  ELSE IF is_whitespace(s[1])
  THEN (IF Len(cur) = 0 THEN <<>> ELSE <<cur>>) \o SplitWs(Tail(s), <<>>)
  ELSE SplitWs(Tail(s), Append(cur, s[1]))

split_whitespace(s) == SplitWs(s, <<>>)

\* the cleaning chain at the head of the library's process_pgn
cleaned_pgn(pgn) ==
  split_skip_collect(
    replace(replace(replace(replace(replace(replace(pgn,
      <<"\n">>, <<" ">>),
      <<"+">>, <<>>),
      <<"#">>, <<>>),
      <<"1","/","2","-","1","/","2">>, <<>>),
      <<"1","-","0">>, <<>>),
      <<"0","-","1">>, <<>>),
    <<"1",".">>)

\* the tokens the for loop of process_pgn iterates over
LoopTokens(im, pgn) ==
  IF im = "lib" THEN split_whitespace(cleaned_pgn(pgn)) ELSE split_whitespace(pgn)

\* token.ends_with('.') || token.starts_with('[')
Skipped(token) == token[Len(token)] = "." \/ token[1] = "["

--------------------------------------------------------------------------
(* Inputs: PGN texts made of the words below *)

Nums == { <<"1",".">>, <<"2",".">> }

MoveWords ==
  { <<"e","4">>, <<"d","4">>, <<"c","4">>, <<"d","5">>,
    <<"e","x","d","5">>,
    <<"N","f","3">>, <<"N","f","6">>, <<"N","d","2">>, <<"N","b","d","2">>,
    <<"N","x","d","2">>, <<"N","5","x","f","6">>, <<"Q","h","4","e","1">>,
    OO, OOO,
    <<"e","4","=","Q">>, <<"e","8","=","Q">>,
    <<"z","x","d","5">>, <<"X","d","4">>, <<"e">>, <<"N","f","3","+">> }

OtherWords == { <<"1","1",".">>, <<"1","-","0">>, <<"1","/","2","-","1","/","2">> }

\* words put in front of another word of the same text
FirstWords ==
  { <<"z","x","d","5">>, <<"X","d","4">>, <<"N","d","2">>,
    <<"e","4">>, <<"1","1",".">>, <<"1","-","0">> }

Texts ==
  { n \o <<" ">> \o w : n \in Nums, w \in MoveWords \cup OtherWords }
  \cup
  { <<"1",".">> \o <<" ">> \o f \o <<"\n">> \o w :
      f \in FirstWords, w \in MoveWords \cup OtherWords }

--------------------------------------------------------------------------
(* The processor as a state machine *)

VARIABLES
  impl,          \* which copy of PgnProcessor: "main" or "lib"
  board,         \* self.board
  current_turn,  \* self.current_turn
  pc,            \* "idle", "running" (inside process_pgn) or "panicked"
  text,          \* the pgn argument of the running call
  tokens,        \* what is left of the for loop of process_pgn
  result,        \* the local result vector of process_pgn
  last,          \* the last iteration of the loop: token, and what it did
  fresh,         \* a processor made by new() at the last new()/reset() and
                 \* given the same tokens since
  after_reset    \* the running call is the first one since a reset()

vars ==
  <<impl, board, current_turn, pc, text, tokens, result, last, fresh,
    after_reset>>

\* PgnProcessor::new
new == [board |-> BoardInit, turn |-> White]

\* reset, had it re-initialised the board only
reset_KeepsTurn(b, turn) == [board |-> BoardInit, turn |-> turn]

\* PgnProcessor::reset, as the fields it leaves in self
reset(b, turn) == [board |-> BoardInit, turn |-> White]

NoMove ==
  Moved("init", <<>>, BoardInit, White, FALSE,
        Parsed("init", "init", BadSquare, BadSquare, NoneOpt, NoneOpt, <<>>,
               {}, FALSE, FALSE, ""))

NoLast ==
  [tok |-> <<>>, handed |-> FALSE, r |-> NoMove,
   pre_board |-> BoardInit, pre_turn |-> White, pre_result |-> <<>>]

FreshOf(st, res, out) ==
  [board |-> st.board, turn |-> st.turn, result |-> out, res |-> res]

Init ==
  /\ impl \in Impls
  /\ board = new.board
  /\ current_turn = new.turn
  /\ pc = "idle"
  /\ text = <<>>
  /\ tokens = <<>>
  /\ result = <<>>
  /\ last = NoLast
  /\ fresh = FreshOf(new, "init", <<>>)
  /\ after_reset = FALSE

\* a caller hands a text to process_pgn: the text is cleaned and split
ProcessPgn(pgn) ==
  /\ pc = "idle"
  /\ board.ply < MaxPly
  /\ pc' = "running"
  /\ text' = pgn
  /\ tokens' = LoopTokens(impl, pgn)
  /\ result' = <<>>
  /\ last' = NoLast
  /\ fresh' = [fresh EXCEPT !.result = <<>>, !.res = "init"]
  /\ UNCHANGED <<impl, board, current_turn, after_reset>>

\* one iteration of the loop on a move number or header token: continue
StepSkip ==
  /\ pc = "running" /\ tokens # <<>>
  /\ Skipped(Head(tokens))
  /\ tokens' = Tail(tokens)
  /\ last' = [tok |-> Head(tokens), handed |-> FALSE, r |-> NoMove,
              pre_board |-> board, pre_turn |-> current_turn,
              pre_result |-> result]
  /\ UNCHANGED <<impl, board, current_turn, pc, text, result, fresh,
                 after_reset>>

\* one iteration of the loop on any other token: process_move, then push;
\* r is what process_move did, g what it did on the processor made by new()
StepMove ==
  /\ pc = "running" /\ tokens # <<>>
  /\ ~Skipped(Head(tokens))
  /\ \E r \in {process_move(impl, board, current_turn, Head(tokens))} :
       /\ board' = r.board
       /\ current_turn' = r.turn
       /\ result' = IF r.res = "some" THEN Append(result, r.out) ELSE result
       /\ pc' = IF r.res = "panic" THEN "panicked" ELSE "running"
       /\ last' = [tok |-> Head(tokens), handed |-> TRUE, r |-> r,
                   pre_board |-> board, pre_turn |-> current_turn,
                   pre_result |-> result]
  /\ \E g \in {process_move(impl, fresh.board, fresh.turn, Head(tokens))} :
       fresh' = [board |-> g.board, turn |-> g.turn, res |-> g.res,
                 result |-> IF g.res = "some"
                            THEN Append(fresh.result, g.out)
                            ELSE fresh.result]
  /\ tokens' = Tail(tokens)
  /\ UNCHANGED <<impl, text, after_reset>>

\* end of input: process_pgn returns result to its caller
Return ==
  /\ pc = "running" /\ tokens = <<>>
  /\ pc' = "idle"
  /\ text' = <<>>
  /\ result' = <<>>
  /\ last' = NoLast
  /\ fresh' = [fresh EXCEPT !.result = <<>>, !.res = "init"]
  /\ after_reset' = FALSE
  /\ UNCHANGED <<impl, board, current_turn, tokens>>

\* a caller calls reset() between two games
Reset ==
  /\ pc = "idle"
  /\ board' = reset(board, current_turn).board
  /\ current_turn' = reset(board, current_turn).turn
  /\ fresh' = FreshOf(new, "init", <<>>)
  /\ after_reset' = TRUE
  /\ UNCHANGED <<impl, pc, text, tokens, result, last>>

Next ==
  \/ \E pgn \in Texts : ProcessPgn(pgn)
  \/ StepSkip
  \/ StepMove
  \/ Return
  \/ Reset

Spec == Init /\ [][Next]_vars

TypeOK ==
  /\ impl \in Impls
  /\ current_turn \in {White, Black}
  /\ pc \in {"idle", "running", "panicked"}

--------------------------------------------------------------------------
(* The grammar of the specification, used to state the properties *)

FileLetters == Range(SubSeq(LowerSeq, 1, 8))
RankDigits == Range(SubSeq(DigitSeq, 2, 9))
PieceLetters == {"N", "B", "R", "Q", "K"}

IsSquare(str) == Len(str) = 2 /\ str[1] \in FileLetters /\ str[2] \in RankDigits

\* what stands between the piece letter and the target square
Mid(tok) == SubSeq(tok, 2, Len(tok) - 2)

GFile(tok) ==
  IF Len(Mid(tok)) > 0 /\ Mid(tok)[1] \in FileLetters
  THEN Some(Mid(tok)[1]) ELSE NoneOpt

AfterGFile(tok) == IF GFile(tok) = NoneOpt THEN Mid(tok) ELSE Tail(Mid(tok))

GRank(tok) ==
  IF Len(AfterGFile(tok)) > 0 /\ AfterGFile(tok)[1] \in RankDigits
  THEN Some(AfterGFile(tok)[1]) ELSE NoneOpt

AfterGRank(tok) ==
  IF GRank(tok) = NoneOpt THEN AfterGFile(tok) ELSE Tail(AfterGFile(tok))

GTarget(tok) == SubSeq(tok, Len(tok) - 1, Len(tok))

\* <piece>[file][rank]['x']<file><rank>
IsPieceShape(tok) ==
  /\ Len(tok) >= 3 /\ Len(tok) <= 6
  /\ tok[1] \in PieceLetters
  /\ IsSquare(GTarget(tok))
  /\ AfterGRank(tok) \in { <<>>, <<"x">> }

\* [file 'x']<file><rank>
IsPawnShape(tok) ==
  \/ IsSquare(tok)
  \/ Len(tok) = 4 /\ tok[1] \in FileLetters /\ tok[2] = "x"
     /\ IsSquare(SubSeq(tok, 3, 4))

PawnGFile(tok) == IF Len(tok) = 4 THEN Some(tok[1]) ELSE NoneOpt

\* the token as process_move parses it: trailing check marks removed
Cleaned(tok) == trim_end_matches(trim_end_matches(tok, "+"), "#")

\* the squares that pass the token's hints and the legality check
Survivors(b, turn, tok) ==
  IF IsPieceShape(tok)
  THEN possible_starts(b, turn, get_piece_type(tok[1])[1], GFile(tok), GRank(tok),
                       string_to_square(GTarget(tok)))
  ELSE possible_starts(b, turn, "Pawn", PawnGFile(tok), NoneOpt,
                       string_to_square(GTarget(tok)))

IsCastle(tok) == tok = OO \/ tok = OOO

\* a pawn token with '=' and a piece letter after the target square
HasPromotion(tok) ==
  /\ Len(tok) >= 4
  /\ tok[1] \in FileLetters
  /\ tok[Len(tok) - 1] = "="
  /\ tok[Len(tok)] \in PieceLetters
  /\ IsPawnShape(SubSeq(tok, 1, Len(tok) - 2))

RECURSIVE AllDigits(_)
AllDigits(s) == Len(s) = 0 \/ (is_ascii_digit(s[1]) /\ AllDigits(Tail(s)))

IsMoveNumber(w) ==
  Len(w) >= 2 /\ w[Len(w)] = "." /\ AllDigits(SubSeq(w, 1, Len(w) - 1))

IsResultMarker(w) ==
  w \in { <<"1","-","0">>, <<"0","-","1">>, <<"1","/","2","-","1","/","2">> }

\* the move tokens of a text: its words that are neither a move number nor a
\* result marker, as written or with the check marks removed
MoveTokensOf(pgn) ==
  LET ws == { w \in Range(split_whitespace(pgn)) :
                ~IsMoveNumber(w) /\ ~IsResultMarker(w) }
  IN ws \cup { replace(replace(w, <<"+">>, <<>>), <<"#">>, <<>>) : w \in ws }

\* the last iteration handed its token to process_move, and it was no castle
LastMove == last.handed /\ ~IsCastle(last.tok)

LastFailed == LastMove /\ last.r.res \in {"none", "panic"}

--------------------------------------------------------------------------
(* Properties *)

\* C1: a non-castle token whose resolution fails (malformed, no candidate,
\* several candidates) leaves current_turn and the board unchanged and emits
\* no move: the state the next token meets is the state before the failed one.
C1_FailedTokenKeepsState ==
  /\ LastFailed =>
       /\ board = last.pre_board
       /\ current_turn = last.pre_turn
       /\ result = last.pre_result
  /\ (LastMove /\ Cardinality(last.r.p.cands) # 1) => LastFailed

\* C1 witness: a pawn token failed with two candidates after moves were
\* played, and the board, the turn and the output are what they were.
C1_Witness ==
  /\ LastFailed
  /\ last.r.p.kind = "pawn"
  /\ Cardinality(last.r.p.cands) = 2
  /\ board.ply > 0
  /\ board = last.pre_board /\ current_turn = last.pre_turn
  /\ result = last.pre_result

\* C2: no token makes processing abort: process_pgn always goes on to the
\* tokens that follow a failing token and returns.
C2_NeverAborts == pc # "panicked"

\* C3: for pawn and piece tokens the resolver returns an origin exactly when
\* one square passes the token's hints and the legality check; with no
\* survivor it fails as unresolved, with several as ambiguous.
C3_UniqueOrTypedFailure ==
  (LastMove /\ (IsPieceShape(Cleaned(last.tok)) \/ IsPawnShape(Cleaned(last.tok)))) =>
    LET n == Cardinality(Survivors(last.pre_board, last.pre_turn, Cleaned(last.tok)))
        ambiguous == last.r.res = "panic" /\ last.r.p.msg = "Ambiguous move"
    IN /\ (last.r.p.res = "some") <=> (n = 1)
       /\ n = 0 => (last.r.res # "some" /\ ~ambiguous)
       /\ n >= 2 => (last.r.res # "some" /\ ambiguous)

\* C4: for a piece token <piece>[file][rank]['x']<file><rank> the target is
\* the final two characters and the hints are the file letter and the rank
\* digit in front of it (Nf3: none; Nbd2: file b; N5xf6: rank 5; Qh4e1: both).
C4_HintsAndTarget ==
  (LastMove /\ IsPieceShape(Cleaned(last.tok))) =>
    /\ last.r.p.kind = "piece"
    /\ last.r.p.target_str = GTarget(Cleaned(last.tok))
    /\ last.r.p.file = GFile(Cleaned(last.tok))
    /\ last.r.p.rank = GRank(Cleaned(last.tok))

\* C5: a castle token parses no square and asks no legality question, is
\* applied to the board by the oracle's castle operation for the side to
\* move, is emitted verbatim and toggles the side to move once.
C5_CastleApplied ==
  (last.handed /\ IsCastle(last.tok)) =>
    /\ ~last.r.p.queried
    /\ last.r.castled
    /\ board = castle(last.pre_board, last.tok, last.pre_turn)
    /\ result = Append(last.pre_result, last.tok)
    /\ current_turn = Not(last.pre_turn)

\* C6: reset() restores the start state: whatever was processed before, the
\* processor after reset() has the board, the turn and, for every token
\* stream processed since, the output of a processor made by new().
C6_ResetIsFresh ==
  /\ board = fresh.board
  /\ current_turn = fresh.turn
  /\ pc # "idle" => result = fresh.result
  /\ (pc = "idle" /\ after_reset) => (board = BoardInit /\ current_turn = White)

\* C6 witness: in the first call after a reset() a move was resolved and
\* pushed, as by a new processor.
C6_Witness ==
  /\ after_reset
  /\ pc = "running"
  /\ last.handed /\ last.r.res = "some"
  /\ Len(result) >= 1
  /\ result = fresh.result

\* C7: a pawn token with a promotion suffix never aborts processing and never
\* resolves as a plain pawn move with the promotion piece dropped.
C7_PromotionExplicit ==
  (last.handed /\ HasPromotion(Cleaned(last.tok))) =>
    /\ last.r.res # "panic"
    /\ last.r.res # "some"

\* C8: current_turn is White exactly when an even number of moves (castles
\* included) have been applied to the board.
C8_TurnMatchesBoard ==
  (current_turn = White) <=> (board.ply % 2 = 0)

\* C9: only move tokens reach process_move: move numbers and result markers
\* are discarded whole, and no fragment of one is handed on.
C9_OnlyMoveTokens ==
  last.handed => last.tok \in MoveTokensOf(text)

\* C10: a non-castle token is a pawn move iff its first character is a to h,
\* a piece move iff it is one of N B R Q K, and any other token is malformed
\* and fails without an oracle query.
C10_Classification ==
  (LastMove /\ Len(Cleaned(last.tok)) > 0) =>
    LET c == Cleaned(last.tok)[1]
    IN /\ (last.r.p.kind = "pawn") <=> (c \in FileLetters)
       /\ (last.r.p.kind = "piece") <=> (c \in PieceLetters)
       /\ (c \notin FileLetters \cup PieceLetters) =>
            (last.r.p.kind = "malformed" /\ ~last.r.p.queried
             /\ last.r.res # "some")

====
